---- MODULE Spec2Model ----
(***************************************************************************)
(* A model of locked-pancake: the mark/sweep allocator of gc/src/lib.rs    *)
(* and the bytecode virtual machine of src/main.rs.                        *)
(*                                                                         *)
(* The two components share no state (the virtual machine keeps its values *)
(* by reference counting, not through the allocator), so each has its own  *)
(* specification: SpecGc for the allocator, SpecVm for the machine.        *)
(***************************************************************************)
EXTENDS Integers, Sequences, FiniteSets, TLC

\* ------------------------------------------------------------------ bounds

\* Slots the client allocates in one run.
MaxSlots == 2
\* Handles one payload holds (the length of an Array's vector).
MaxKids == 1
\* Stores into payloads already allocated and calls of GcRef::trace_ref that
\* a client makes itself, in one run.
MaxExtra == 1

\* Largest byte value in generated instruction bytes (a u8 goes up to 255).
MaxByte == 10
\* Arguments a generated program pushes, and parameters a callee declares.
MaxArgs == 2
\* Largest instruction budget of one execute call.
MaxBudget == 3

VARIABLES
    \* --- virtual machine (src/main.rs)
    globals,    \* VirtualMachine.globals
    threads,    \* the Threads made by load, by thread id
    vmfail,     \* "none", or the panic that ended the run
    running,    \* the thread an execute with no budget is looping on, or 0
    \* --- virtual machine, history
    vmlast,     \* the last call: thread, budget, result, thread and globals before
    \* --- allocator (gc/src/lib.rs)
    gcflag,     \* SimpleGcAllocator.flag
    values,     \* SimpleGcAllocator.values: the live list, slot ids in order
    heap,       \* the leaked GcValue boxes, by allocation order
    gcfail,     \* "none", or the panic that ended the run
    nextra,     \* stores into payloads and own calls of trace_ref so far
    \* --- allocator, history
    gclast,     \* the last operation, the handle of a mark or deref, the outcome
    \* (roots, reach, dirty and visits are the history of the marks of a
    \* cycle: they are kept for as long as mark alone has written flags in it)
    roots,      \* handles passed to mark since the last sweep
    reach,      \* slots the marks since the last sweep could reach when made
    dirty,      \* a payload changed after a mark of this cycle
    foreign,    \* trace_ref was called since the last sweep, and not by mark
    visits,     \* per slot, the calls of its payload's trace since the last sweep
    swept       \* after a sweep: the live list, roots, reach, dirty and foreign
                \* before it

gcvars == <<gcflag, values, heap, gcfail, nextra, gclast, roots, reach, dirty,
           foreign, visits, swept>>

vmvars == <<globals, threads, vmfail, running, vmlast>>

vars == <<gcvars, vmvars>>

\* ------------------------------------------------------------- allocator

\* GcValue<T>: the optional payload and the slot's flag. The payload is the
\* test's Value: the handles it holds, in order (Integer holds none).
GcValue(present, flag, kids) == [present |-> present, flag |-> flag, kids |-> kids]

Handles == 1..Len(heap)

\* Sequences of at most n elements of S.
SeqUpTo(S, n) == UNION {[1..k -> S] : k \in 0..n}

\* The history of a sweep, when the last operation was not one.
NoSweep ==
    [values |-> <<>>, roots |-> {}, reach |-> {}, dirty |-> FALSE, foreign |-> FALSE]

\* impl Default for SimpleGcAllocator
GcInit ==
    /\ gcflag = 1
    /\ values = <<>>
    /\ heap = <<>>
    /\ gcfail = "none"
    /\ nextra = 0
    /\ gclast = [op |-> "new", h |-> 0, res |-> "ok"]
    /\ roots = {}
    /\ reach = {}
    /\ dirty = FALSE
    /\ foreign = FALSE
    /\ visits = <<>>
    /\ swept = NoSweep

\* The slots a traceable visit starting at handle h can get to in heap hp:
\* h itself, and from a slot that still has its payload the handles it holds.
RECURSIVE ReachFrom(_, _, _)
ReachFrom(hp, frontier, seen) ==
    IF frontier = {} THEN seen
    ELSE LET next == UNION {{hp[s].kids[i] : i \in 1..Len(hp[s].kids)} :
                            s \in {x \in frontier : hp[x].present}}
         IN ReachFrom(hp, next \ (seen \cup frontier), seen \cup frontier)

Reachable(hp, h) == ReachFrom(hp, {h}, {})

\* GcRef::trace_ref, with Traceable::trace of the payload. st carries the heap,
\* the slots whose flag cell is mutably borrowed by a trace_ref still running,
\* whether a borrow_mut of a borrowed cell has panicked, and per slot the
\* calls of value.trace made so far.
RECURSIVE trace_ref(_, _, _)
RECURSIVE trace(_, _, _, _)
RECURSIVE trace_refUnflagged(_, _, _)

\* trace_ref, were it to visit the payload whatever the slot's flag.
trace_refUnflagged(st, h, flag) ==
    IF st.failed THEN st
    ELSE IF h \in st.borrowed THEN [st EXCEPT !.failed = TRUE]
    ELSE LET s1 == [st EXCEPT !.heap[h].flag = flag, !.borrowed = @ \cup {h}]
             s2 == IF s1.heap[h].present
                   THEN trace([s1 EXCEPT !.visits[h] = @ + 1], s1.heap[h].kids, 1, flag)
                   ELSE s1
         IN IF s2.failed THEN s2 ELSE [s2 EXCEPT !.borrowed = @ \ {h}]

trace_ref(st, h, flag) ==
    IF st.failed THEN st
    ELSE IF h \in st.borrowed THEN [st EXCEPT !.failed = TRUE]
    ELSE IF st.heap[h].flag = flag THEN st
    ELSE LET s1 == [st EXCEPT !.heap[h].flag = flag, !.borrowed = @ \cup {h}]
             s2 == IF s1.heap[h].present
                   THEN trace([s1 EXCEPT !.visits[h] = @ + 1], s1.heap[h].kids, 1, flag)
                   ELSE s1
         IN IF s2.failed THEN s2 ELSE [s2 EXCEPT !.borrowed = @ \ {h}]

\* Traceable::trace for Value::Array: trace_ref of each element in order.
trace(st, kids, i, flag) ==
    IF i > Len(kids) \/ st.failed THEN st
    ELSE trace(trace_ref(st, kids[i], flag), kids, i + 1, flag)

\* alloc, were it to start a slot with the flag the allocator starts with.
allocFlagged(kids) ==
    /\ gcfail = "none"
    /\ Len(heap) < MaxSlots
    /\ heap' = Append(heap, GcValue(TRUE, 1, kids))
    /\ values' = Append(values, Len(heap) + 1)
    /\ visits' = Append(visits, 0)
    /\ gclast' = [op |-> "alloc", h |-> 0, res |-> "ok"]
    /\ swept' = NoSweep
    /\ UNCHANGED <<gcflag, gcfail, nextra, roots, reach, dirty, foreign>>

\* SimpleGcAllocator::alloc
alloc(kids) ==
    /\ gcfail = "none"
    /\ Len(heap) < MaxSlots
    /\ heap' = Append(heap, GcValue(TRUE, 0, kids))
    /\ values' = Append(values, Len(heap) + 1)
    /\ visits' = Append(visits, 0)
    /\ gclast' = [op |-> "alloc", h |-> 0, res |-> "ok"]
    /\ swept' = NoSweep
    /\ UNCHANGED <<gcflag, gcfail, nextra, roots, reach, dirty, foreign>>

\* SimpleGcAllocator::mark
mark(h) ==
    /\ gcfail = "none"
    /\ LET st == trace_ref([heap |-> heap, borrowed |-> {}, failed |-> FALSE,
                            visits |-> visits], h, gcflag)
       IN /\ heap' = st.heap
          /\ visits' = IF foreign THEN visits ELSE st.visits
          /\ gcfail' = IF st.failed THEN "BorrowMutError" ELSE "none"
          /\ gclast' = [op |-> "mark", h |-> h,
                        res |-> IF st.failed THEN "panic" ELSE "ok"]
    /\ roots' = IF foreign THEN roots ELSE roots \cup {h}
    /\ reach' = IF foreign THEN reach ELSE reach \cup Reachable(heap, h)
    /\ swept' = NoSweep
    /\ UNCHANGED <<gcflag, values, nextra, dirty, foreign>>

\* The values of GcFlag a client can hold: GcFlag::default(), and the flags
\* an allocator, this one or another, hands to Traceable::trace.
ClientFlags == {0, 1, 2}

\* GcRef::trace_ref called on a handle by the client itself, or by the mark
\* of another allocator, with a flag that need not be this allocator's.
trace_ref_call(h, flag) ==
    /\ gcfail = "none"
    /\ nextra < MaxExtra
    /\ LET st == trace_ref([heap |-> heap, borrowed |-> {}, failed |-> FALSE,
                            visits |-> visits], h, flag)
       IN /\ heap' = st.heap
          /\ gcfail' = IF st.failed THEN "BorrowMutError" ELSE "none"
          /\ gclast' = [op |-> "trace_ref", h |-> 0,
                        res |-> IF st.failed THEN "panic" ELSE "ok"]
    /\ nextra' = nextra + 1
    /\ foreign' = TRUE
    /\ roots' = {}
    /\ reach' = {}
    /\ dirty' = FALSE
    /\ visits' = [s \in DOMAIN heap |-> 0]
    /\ swept' = NoSweep
    /\ UNCHANGED <<gcflag, values>>

\* dealloc, were it to collect only the slots no mark ever flagged.
deallocNeverMarked(v, flag) == v.flag = 0

\* GcValue::dealloc: TRUE when the slot's flag is not the cycle's.
dealloc(v, flag) == v.flag # flag

\* Dealloced, were dealloc to report the slot deleted and keep its payload.
DeallocedKeepsPayload(v, flag) == v

\* The slot after dealloc: value.take() drops the payload.
Dealloced(v, flag) == IF dealloc(v, flag) THEN GcValue(FALSE, v.flag, <<>>) ELSE v

\* SimpleGcAllocator::sweep
sweep ==
    /\ gcfail = "none"
    /\ LET flag == gcflag
           Swept(s) == s \in {values[i] : i \in 1..Len(values)}
           Keep(s) == ~dealloc(heap[s], flag)
       IN /\ heap' = [s \in DOMAIN heap |->
                        IF Swept(s) THEN Dealloced(heap[s], flag) ELSE heap[s]]
          /\ values' = SelectSeq(values, Keep)
    /\ gcflag' = IF gcflag = 1 THEN 2 ELSE 1
    /\ gclast' = [op |-> "sweep", h |-> 0, res |-> "ok"]
    /\ swept' = IF foreign THEN [NoSweep EXCEPT !.foreign = TRUE]
                 ELSE [values |-> values, roots |-> roots, reach |-> reach,
                       dirty |-> dirty, foreign |-> FALSE]
    /\ roots' = {}
    /\ reach' = {}
    /\ dirty' = FALSE
    /\ foreign' = FALSE
    /\ visits' = [s \in DOMAIN heap |-> 0]
    /\ UNCHANGED <<gcfail, nextra>>

\* deref, were it to hand out the payload without looking at the Option.
derefUnchecked(h) ==
    /\ gcfail = "none"
    /\ gclast' = [op |-> "deref", h |-> h, res |-> "value"]
    /\ swept' = NoSweep
    /\ UNCHANGED <<gcflag, values, heap, gcfail, nextra, roots, reach, dirty, foreign, visits>>

\* impl Deref for GcRef: the payload, or the panic of a freed slot.
deref(h) ==
    /\ gcfail = "none"
    /\ gclast' = [op |-> "deref", h |-> h,
                  res |-> IF heap[h].present THEN "value" ELSE "panic"]
    /\ gcfail' = IF heap[h].present THEN "none" ELSE "freed GcRef"
    /\ swept' = NoSweep
    /\ UNCHANGED <<gcflag, values, heap, nextra, roots, reach, dirty, foreign, visits>>

\* A client whose payload has interior mutability stores one more handle in
\* the payload of a: it reaches the payload through deref, which needs it alive.
link(a, b) ==
    /\ gcfail = "none"
    /\ heap[a].present
    /\ Len(heap[a].kids) < MaxKids
    /\ nextra < MaxExtra
    /\ nextra' = nextra + 1
    /\ heap' = [heap EXCEPT ![a].kids = Append(@, b)]
    /\ gclast' = [op |-> "link", h |-> 0, res |-> "ok"]
    /\ dirty' = (dirty \/ roots # {})
    /\ swept' = NoSweep
    /\ UNCHANGED <<gcflag, values, gcfail, roots, reach, foreign, visits>>

\* ------------------------------------------------------- virtual machine

\* enum Instruction, in declaration order (FromPrimitive numbers it from 0).
OpReturn == 0
OpCall == 1
OpLoadConstant == 2
OpLoadCode == 3
OpMakeFunction == 4
OpLoadGlobal == 5
OpSetGlobal == 6
OpGetAttr == 7
OpSetAttr == 8
OpPop == 9

\* FromPrimitive::from_u8 for Instruction: Some for the ten opcodes.
from_u8(b) == b \in OpReturn..OpPop

\* enum Value. An Rc<Code> is a name of the code it points to, which CodeOf
\* resolves: a Code is immutable and lives as long as any name of it.
String(s) == [tag |-> "String", v |-> s]
Integer(i) == [tag |-> "Integer", v |-> i]
Nil == [tag |-> "Nil"]
CodeVal(c) == [tag |-> "Code", v |-> c]
FunctionVal(c, ups) == [tag |-> "Function", code |-> c, upvalues |-> ups]

\* struct Code
Code(upvalues, params, constants, instrs, codes) ==
    [upvalues |-> upvalues, params |-> params, constants |-> constants,
     instrs |-> instrs, codes |-> codes]

\* struct Thread
Thread(code, instr, stack) == [code |-> code, instr |-> instr, stack |-> stack]

\* ------------------------------------------------------------- programs

\* The names of the nested codes of the generated programs.
CalleeName(params) == <<"callee", params>>
CalleeUp == <<"callee_up", 0>>
CalleeRes == <<"callee_res", 0>>
CalleeLoop == <<"callee_loop", 0>>
\* The names of the top-level codes: with the tables below, or with none.
MainCode(instrs) == <<"main", instrs>>
BareCode(instrs) == <<"bare", instrs>>
\* The names of the code compile_text returns and of its nested code.
Compiled == <<"compiled", 0>>
CompiledMain == <<"compiled_main", 0>>

MainConstants ==
    [i \in 1..(MaxArgs + 1) |-> Integer(i - 1)] \o <<Integer(-1), String("main")>>
MainCodes ==
    [i \in 1..(MaxArgs + 1) |-> CalleeName(i - 1)] \o <<CalleeUp, CalleeRes, CalleeLoop>>

\* compile_text: the one program the compiler stub emits.
compile_text ==
    Code(0, 0, <<String("main")>>,
         <<OpLoadCode, 0, OpMakeFunction, 0, OpSetGlobal, 0>>,
         <<CompiledMain>>)

\* The nested code of compile_text's program.
compile_text_main ==
    Code(0, 0, <<Integer(4), String("Child"), String("greet")>>,
         <<OpLoadGlobal, 1, OpLoadConstant, 0, OpCall, 1,
           OpLoadConstant, 2, OpGetAttr, OpCall, 0, OpPop, 2>>,
         <<>>)

\* The Code a name points to.
CodeOf(name) ==
    CASE name[1] = "main" -> Code(0, 0, MainConstants, name[2], MainCodes)
      [] name[1] = "bare" -> Code(0, 0, <<>>, name[2], <<>>)
      \* a callee with no instructions: it falls off the end at once
      [] name[1] = "callee" -> Code(0, name[2], <<>>, <<>>, <<>>)
      \* a callee that declares an upvalue
      [] name[1] = "callee_up" -> Code(1, 0, <<>>, <<>>, <<>>)
      \* a callee that leaves a constant on the stack as its result
      [] name[1] = "callee_res" -> Code(0, 0, <<Integer(7)>>, <<OpLoadConstant, 0>>, <<>>)
      \* a callee that calls the function two slots under its frame markers
      [] name[1] = "callee_loop" -> Code(0, 0, <<>>, <<OpCall, 2>>, <<>>)
      [] name[1] = "compiled" -> compile_text
      [] name[1] = "compiled_main" -> compile_text_main

\* Instruction bytes that set up a stack: nothing, a nested code or a function
\* made of it, and then the first k constants.
RECURSIVE PushConstants(_)
PushConstants(k) ==
    IF k = 0 THEN <<>> ELSE PushConstants(k - 1) \o <<OpLoadConstant, k - 1>>
Bases ==
    {<<>>} \cup {<<OpLoadCode, i - 1>> : i \in 1..Len(MainCodes)}
           \cup {<<OpLoadCode, i - 1, OpMakeFunction, 0>> : i \in 1..Len(MainCodes)}
SetUps == {b \o PushConstants(k) : b \in Bases, k \in 0..MaxArgs}

\* The bytes after the set-up: nothing, or any byte where the next opcode is
\* fetched, alone or followed by any byte where its operand would be.
Bytes == 0..MaxByte
Tails == {<<>>} \cup {<<b>> : b \in Bytes} \cup {<<b, o>> : b, o \in Bytes}

\* The codes a host hands to load.
Programs ==
    {MainCode(s \o t) : s \in SetUps, t \in Tails}
        \cup {BareCode(t) : t \in Tails}
        \cup {Compiled, CompiledMain}

\* ------------------------------------------------------------ execution

\* The outcome of one instruction: the thread, the globals, and "next" or the
\* error or panic that ends execute.
Out(th, g, res) == [th |-> th, g |-> g, res |-> res]

\* instrs[*instr]: the operand byte, when the index is in range.
HasOperand(th) == th.instr < Len(CodeOf(th.code).instrs)
Operand(th) == CodeOf(th.code).instrs[th.instr + 1]
Advance(th) == [th EXCEPT !.instr = @ + 1]

\* n copies of Nil.
Nils(n) == [i \in 1..n |-> Nil]

\* Instruction::Return: pops the top, then the value under it.
ExecReturn(th, g) ==
    LET len == Len(th.stack)
    IN IF len >= 2
       THEN LET first == th.stack[len]
                second == th.stack[len - 1]
                rest == SubSeq(th.stack, 1, len - 2)
            IN IF first.tag = "Integer" /\ second.tag = "Code" /\ first.v >= 0
               THEN Out(Thread(second.v, first.v, rest), g, "next")
               ELSE Out([th EXCEPT !.stack = rest], g, "InvalidInstruction")
       ELSE Out([th EXCEPT !.stack = <<>>], g, "StackEmpty")

\* PadArgs, were it to pad but never drop an extra argument.
PadArgsKeepExtra(stack, params, nb_args) ==
    IF params > nb_args THEN stack \o Nils(params - nb_args) ELSE stack

\* The stack of a Call once the arguments match the callee's parameters.
PadArgs(stack, params, nb_args) ==
    IF params > nb_args THEN stack \o Nils(params - nb_args)
    ELSE IF params < nb_args THEN SubSeq(stack, 1, Len(stack) + params - nb_args)
    ELSE stack

\* The two frame-marker slots a Call pushes.
FrameMarker(th) == <<Integer(th.instr), CodeVal(th.code)>>

\* Instruction::Call
ExecCall(th, g) ==
    IF ~HasOperand(th) THEN Out(th, g, "panic")
    ELSE LET nb_args == Operand(th)
             t1 == Advance(th)
             len == Len(t1.stack)
         IN IF len < nb_args + 1 THEN Out(t1, g, "StackEmpty")
            ELSE LET func == t1.stack[len - nb_args]
                 IN IF func.tag # "Function" THEN Out(t1, g, "InvalidInstruction")
                    ELSE LET func_code == CodeOf(func.code)
                             padded == PadArgs(t1.stack, func_code.params, nb_args)
                         IN IF func_code.upvalues > 0
                            THEN Out([t1 EXCEPT !.stack = padded], g, "InvalidInstruction")
                            ELSE Out(Thread(func.code, 0, padded \o FrameMarker(t1)),
                                     g, "next")

\* LoadConstant, were its bounds check to let the table length through: the
\* indexing of the constants then panics.
ExecLoadConstantOffByOne(th, g) ==
    IF ~HasOperand(th) THEN Out(th, g, "panic")
    ELSE LET constant_idx == Operand(th)
             t1 == Advance(th)
             constants == CodeOf(t1.code).constants
         IN IF constant_idx < Len(constants)
            THEN Out([t1 EXCEPT !.stack = Append(@, constants[constant_idx + 1])],
                     g, "next")
            ELSE IF constant_idx = Len(constants) THEN Out(t1, g, "panic")
            ELSE Out(t1, g, "InvalidInstruction")

\* Instruction::LoadConstant
ExecLoadConstant(th, g) ==
    IF ~HasOperand(th) THEN Out(th, g, "panic")
    ELSE LET constant_idx == Operand(th)
             t1 == Advance(th)
             constants == CodeOf(t1.code).constants
         IN IF constant_idx < Len(constants)
            THEN Out([t1 EXCEPT !.stack = Append(@, constants[constant_idx + 1])],
                     g, "next")
            ELSE Out(t1, g, "InvalidInstruction")

\* Instruction::LoadCode
ExecLoadCode(th, g) ==
    IF ~HasOperand(th) THEN Out(th, g, "panic")
    ELSE LET code_idx == Operand(th)
             t1 == Advance(th)
             codes == CodeOf(t1.code).codes
         IN IF code_idx < Len(codes)
            THEN Out([t1 EXCEPT !.stack = Append(@, CodeVal(codes[code_idx + 1]))],
                     g, "next")
            ELSE Out(t1, g, "InvalidInstruction")

\* Instruction::MakeFunction
ExecMakeFunction(th, g) ==
    IF ~HasOperand(th) THEN Out(th, g, "panic")
    ELSE LET nb_upvalues == Operand(th)
             t1 == Advance(th)
             len == Len(t1.stack)
         IN IF nb_upvalues > 0 THEN Out(t1, g, "InvalidInstruction")
            ELSE IF len < nb_upvalues + 1 THEN Out(t1, g, "StackEmpty")
            ELSE LET func_upvalues == SubSeq(t1.stack, len - nb_upvalues + 1, len)
                     below == SubSeq(t1.stack, 1, len - nb_upvalues)
                     top == below[Len(below)]
                     rest == SubSeq(below, 1, Len(below) - 1)
                 IN IF top.tag = "Code"
                    THEN Out([t1 EXCEPT !.stack =
                                  Append(rest, FunctionVal(top.v, func_upvalues))],
                             g, "next")
                    ELSE Out([t1 EXCEPT !.stack = rest], g, "InvalidInstruction")

\* Instruction::LoadGlobal, SetGlobal, GetAttr, SetAttr: empty match arms.
ExecLoadGlobal(th, g) == Out(th, g, "next")
ExecSetGlobal(th, g) == Out(th, g, "next")
ExecGetAttr(th, g) == Out(th, g, "next")
ExecSetAttr(th, g) == Out(th, g, "next")

\* Pop, were it to remove what there is before reporting the underflow.
ExecPopPartial(th, g) ==
    IF ~HasOperand(th) THEN Out(th, g, "panic")
    ELSE LET nb == Operand(th)
             t1 == Advance(th)
         IN IF Len(t1.stack) < nb THEN Out([t1 EXCEPT !.stack = <<>>], g, "StackEmpty")
            ELSE Out([t1 EXCEPT !.stack = SubSeq(@, 1, Len(@) - nb)], g, "next")

\* Instruction::Pop
ExecPop(th, g) ==
    IF ~HasOperand(th) THEN Out(th, g, "panic")
    ELSE LET nb == Operand(th)
             t1 == Advance(th)
         IN IF Len(t1.stack) < nb THEN Out(t1, g, "StackEmpty")
            ELSE Out([t1 EXCEPT !.stack = SubSeq(@, 1, Len(@) - nb)], g, "next")

\* The match on the decoded opcode.
Dispatch(opcode, th, g) ==
    CASE opcode = OpReturn -> ExecReturn(th, g)
      [] opcode = OpCall -> ExecCall(th, g)
      [] opcode = OpLoadConstant -> ExecLoadConstant(th, g)
      [] opcode = OpLoadCode -> ExecLoadCode(th, g)
      [] opcode = OpMakeFunction -> ExecMakeFunction(th, g)
      [] opcode = OpLoadGlobal -> ExecLoadGlobal(th, g)
      [] opcode = OpSetGlobal -> ExecSetGlobal(th, g)
      [] opcode = OpGetAttr -> ExecGetAttr(th, g)
      [] opcode = OpSetAttr -> ExecSetAttr(th, g)
      [] opcode = OpPop -> ExecPop(th, g)

\* The opcode the next iteration fetches: an implicit Return at or past the
\* end of the instructions, else the byte at the instruction pointer.
AtEnd(th) == th.instr >= Len(CodeOf(th.code).instrs)
Fetched(th) == IF AtEnd(th) THEN OpReturn ELSE CodeOf(th.code).instrs[th.instr + 1]

\* One iteration of the loop of execute: fetch, decode, execute.
Step(th, g) ==
    IF AtEnd(th) THEN Dispatch(OpReturn, th, g)
    ELSE LET opcode == CodeOf(th.code).instrs[th.instr + 1]
             t1 == Advance(th)
         IN IF from_u8(opcode) THEN Dispatch(opcode, t1, g)
            ELSE Out(t1, g, "InvalidInstruction")

\* The loop of execute with budget Some(count): what it returns, the thread
\* and globals it leaves, and the instructions it fetched.
RECURSIVE Run(_, _, _, _)
RECURSIVE AfterStep(_, _, _)

\* Run, were the loop head to read Some(0) as it reads None, as a budget of 1.
RunUnwrapsZero(th, g, count, steps) ==
    IF count = 0 /\ steps > 0
    THEN [th |-> th, g |-> g, res |-> "Ok(false)", steps |-> steps]
    ELSE AfterStep(Step(th, g), IF count = 0 THEN 1 ELSE count, steps)

Run(th, g, count, steps) ==
    IF count = 0
    THEN [th |-> th, g |-> g, res |-> "Ok(false)", steps |-> steps]
    ELSE AfterStep(Step(th, g), count, steps)

\* The rest of an iteration whose instruction came out as r: return its
\* error, or decrement the budget and loop.
AfterStep(r, count, steps) ==
    IF r.res # "next"
    THEN [th |-> r.th, g |-> r.g, res |-> r.res, steps |-> steps + 1]
    ELSE Run(r.th, r.g, count - 1, steps + 1)

\* The budgets a host passes to execute.
Budgets == 0..MaxBudget

NoThread == Thread(BareCode(<<>>), 0, <<>>)

\* VirtualMachine::new
VmInit ==
    /\ globals = <<>>
    /\ threads = <<>>
    /\ vmfail = "none"
    /\ running = 0
    /\ vmlast = [op |-> "new", t |-> 0, count |-> 0, res |-> "none", steps |-> 0,
                 pre |-> NoThread, gpre |-> <<>>]

\* VirtualMachine::load
load(t, code) ==
    /\ vmfail = "none"
    /\ running = 0
    /\ t \notin DOMAIN threads
    /\ threads' = [x \in DOMAIN threads \cup {t} |->
                     IF x = t THEN Thread(code, 0, <<>>) ELSE threads[x]]
    /\ vmlast' = [op |-> "load", t |-> t, count |-> 0, res |-> "none", steps |-> 0,
                  pre |-> NoThread, gpre |-> <<>>]
    /\ UNCHANGED <<globals, vmfail, running>>

\* Returned, were the threads of a machine to share one execution context.
ReturnedToAll(t, n, r) ==
    /\ threads' = [x \in DOMAIN threads |-> r.th]
    /\ globals' = r.g
    /\ vmfail' = IF r.res = "panic" THEN "index out of bounds" ELSE "none"
    /\ vmlast' = [op |-> "execute", t |-> t, count |-> n, res |-> r.res,
                  steps |-> r.steps, pre |-> threads[t], gpre |-> globals]
    /\ UNCHANGED running

\* What an execute call that ran as r leaves behind.
Returned(t, n, r) ==
    /\ threads' = [threads EXCEPT ![t] = r.th]
    /\ globals' = r.g
    /\ vmfail' = IF r.res = "panic" THEN "index out of bounds" ELSE "none"
    /\ vmlast' = [op |-> "execute", t |-> t, count |-> n, res |-> r.res,
                  steps |-> r.steps, pre |-> threads[t], gpre |-> globals]
    /\ UNCHANGED running

\* VirtualMachine::execute with count = Some(n)
execute(t, n) ==
    /\ vmfail = "none"
    /\ running = 0
    /\ t \in DOMAIN threads
    /\ Returned(t, n, Run(threads[t], globals, n, 0))

\* VirtualMachine::execute with count = None, up to the head of its loop:
\* count.unwrap_or(1) > 0 holds at every test, so the loop is left only by a
\* return inside its body. The call need not return, so it is modelled one
\* iteration at a time.
execute_none(t) ==
    /\ vmfail = "none"
    /\ running = 0
    /\ t \in DOMAIN threads
    /\ running' = t
    /\ vmlast' = [op |-> "execute_none", t |-> t, count |-> 0, res |-> "running",
                  steps |-> 0, pre |-> threads[t], gpre |-> globals]
    /\ UNCHANGED <<globals, threads, vmfail>>

\* What one iteration that came out as r leaves behind: the call goes on
\* after "next" and returns r.res otherwise. The history keeps the parity of
\* the iterations made, which is finite however long the call runs.
Iterated(r) ==
    /\ threads' = [threads EXCEPT ![running] = r.th]
    /\ globals' = r.g
    /\ running' = IF r.res = "next" THEN running ELSE 0
    /\ vmfail' = IF r.res = "panic" THEN "index out of bounds" ELSE "none"
    /\ vmlast' = [vmlast EXCEPT !.res = IF r.res = "next" THEN "running" ELSE r.res,
                                !.steps = 1 - @]

\* One iteration of the loop of an execute with count = None.
iterate ==
    /\ vmfail = "none"
    /\ running # 0
    /\ Iterated(Step(threads[running], globals))

\* --------------------------------------------------------- specifications

Init == GcInit /\ VmInit

GcNext ==
    \/ \E kids \in SeqUpTo(Handles, MaxKids) : alloc(kids) /\ UNCHANGED vmvars
    \/ \E h \in Handles : mark(h) /\ UNCHANGED vmvars
    \/ sweep /\ UNCHANGED vmvars
    \/ \E h \in Handles : deref(h) /\ UNCHANGED vmvars
    \/ \E a \in Handles, b \in Handles : link(a, b) /\ UNCHANGED vmvars
    \/ \E h \in Handles, flag \in ClientFlags :
            trace_ref_call(h, flag) /\ UNCHANGED vmvars

\* The allocator under any client.
SpecGc == Init /\ [][GcNext]_vars

VmNext ==
    \/ \E t \in {1} \ DOMAIN threads : \E code \in Programs :
            load(t, code) /\ UNCHANGED gcvars
    \/ \E t \in {1} \cap DOMAIN threads : \E n \in Budgets :
            execute(t, n) /\ UNCHANGED gcvars

\* The virtual machine driving one thread.
SpecVm == Init /\ [][VmNext]_vars

\* The codes a host hands to the two threads of one machine: the compiler's,
\* and a call with one argument of each thing the set-up can leave under it.
Programs2 ==
    {Compiled, CompiledMain}
        \cup {MainCode(b \o PushConstants(1) \o <<OpCall, 1>>) : b \in Bases}

TwoThreads == {1, 2}

Vm2Next ==
    \/ \E t \in TwoThreads \ DOMAIN threads : \E code \in Programs2 :
            load(t, code) /\ UNCHANGED gcvars
    \/ \E t \in TwoThreads \cap DOMAIN threads : \E n \in Budgets :
            execute(t, n) /\ UNCHANGED gcvars

\* The virtual machine driving two threads, their execute calls interleaved.
SpecVm2 == Init /\ [][Vm2Next]_vars

RunNext ==
    \/ \E t \in {1} \ DOMAIN threads : \E code \in Programs :
            load(t, code) /\ UNCHANGED gcvars
    \/ \E t \in {1} \cap DOMAIN threads : execute_none(t) /\ UNCHANGED gcvars
    \/ iterate /\ UNCHANGED gcvars

\* The virtual machine running one thread with no budget, as main does. A
\* call that has started goes on iterating for as long as it has not returned.
SpecRun == Init /\ [][RunNext]_vars /\ WF_vars(iterate /\ UNCHANGED gcvars)

\* ------------------------------------------------------ allocator: claims

\* The elements of a sequence.
Range(q) == {q[i] : i \in 1..Len(q)}

\* s lies on a cycle of the value graph: its payload reaches s again.
OnCycle(hp, s) ==
    /\ hp[s].present
    /\ s \in ReachFrom(hp, Range(hp[s].kids), {})

\* The last operation was a sweep of a cycle in which no payload was changed
\* after a mark and no flag was written but by the allocator's mark: the
\* marks of the cycle all saw the graph the sweep saw, and the sweep saw the
\* flags they left.
JustSwept == gclast.op = "sweep" /\ ~swept.dirty /\ ~swept.foreign

InReach(s) == s \in swept.reach

\* C1: right after each sweep the live list is the previous live list cut down
\* to the slots the marks of the cycle reached, in the same order, and every
\* other slot of the previous live list has lost its payload; in every cycle.
SweepKeepsReachable ==
    JustSwept =>
        /\ values = SelectSeq(swept.values, InReach)
        /\ \A s \in Range(swept.values) : heap[s].present <=> s \in swept.reach
        /\ \A i, j \in 1..Len(values) : i < j => values[i] < values[j]

\* C1 witness: a sweep kept a slot and collected one that a mark of an earlier
\* cycle had flagged, a survivor of an earlier sweep.
SweepCollectsOldSurvivor ==
    /\ JustSwept
    /\ values # <<>>
    /\ \E s \in Range(swept.values) : ~heap[s].present /\ heap[s].flag # 0

\* C2: a mark whose root lies on or reaches a cycle of the value graph returns
\* normally and leaves every slot of the cycle flagged with the current flag.
MarkOnCycleSucceeds ==
    (gclast.op = "mark" /\ \E s \in Reachable(heap, gclast.h) : OnCycle(heap, s)) =>
        /\ gclast.res = "ok"
        /\ \A s \in Reachable(heap, gclast.h) : OnCycle(heap, s) => heap[s].flag = gcflag

\* C6: a handle to a hollowed slot never yields a value (deref panics), a mark
\* through it returns normally, no hollowed slot is in the live list, and a
\* sweep after such a mark still keeps exactly the reached slots that had a
\* payload.
StaleHandleSafe ==
    /\ (gclast.op = "deref" /\ ~heap[gclast.h].present) => gclast.res = "panic"
    /\ (gclast.op = "mark" /\ ~heap[gclast.h].present) => gclast.res = "ok"
    /\ \A s \in Range(values) : heap[s].present
    /\ (JustSwept /\ \E h \in swept.reach : h \notin Range(swept.values)) =>
            /\ Range(values) = Range(swept.values) \cap swept.reach
            /\ \A h \in swept.reach \ Range(swept.values) : ~heap[h].present

\* C6 witness: a sweep that followed a mark through a stale handle: the
\* hollowed slot stayed out of the live list and a marked live slot was kept.
SweepAfterStaleMark ==
    /\ JustSwept
    /\ values # <<>>
    /\ \E h \in swept.roots : h \notin Range(swept.values) /\ ~heap[h].present

\* C6 witness of the failure path: a deref of a hollowed slot has panicked.
DerefOfStalePanicked ==
    gclast.op = "deref" /\ gclast.res = "panic" /\ gcfail = "freed GcRef"

\* C12: no slot is ever taken out of the heap, a payload that was removed is
\* never put back, and after every operation the live list holds exactly the
\* slots whose payload is present.
SlotsPermanent ==
    [][/\ Len(heap') >= Len(heap)
       /\ \A s \in DOMAIN heap : ~heap[s].present => ~heap'[s].present
       /\ Range(values') = {s \in DOMAIN heap' : heap'[s].present}
       /\ Len(values') = Cardinality(Range(values'))]_vars

\* C12 witness: a sweep has run over a heap that held a slot hollowed by an
\* earlier sweep, and kept a live slot.
SweepOverTombstone ==
    /\ gclast.op = "sweep"
    /\ values # <<>>
    /\ \E s \in Handles : s \notin Range(swept.values) /\ ~heap[s].present

\* C13: the one step that grows the heap, alloc, adds one slot with a payload
\* and a flag that is not the allocator's current flag, appends it to the live
\* list, and changes no other slot and not the current flag.
AllocAddsOneSlot ==
    [][Len(heap') # Len(heap) =>
        /\ Len(heap') = Len(heap) + 1
        /\ heap'[Len(heap')].present
        /\ heap'[Len(heap')].flag # gcflag'
        /\ values' = Append(values, Len(heap'))
        /\ gcflag' = gcflag
        /\ \A s \in DOMAIN heap : heap'[s] = heap[s]]_vars

\* C13 witness: an alloc after an odd number of sweeps, next to a slot that
\* an earlier cycle flagged.
AllocAfterSweep ==
    /\ gclast.op = "alloc"
    /\ gcflag = 2
    /\ Len(values) >= 2
    /\ heap[values[1]].flag = 1

\* C14: a mark of a handle whose slot already has the current flag changes no
\* flag and visits no payload, and in every cycle in which mark alone has
\* called trace_ref the payload of a slot has been visited once if the slot
\* has the current flag and not at all if not.
MarkIdempotent ==
    [][/\ (gclast'.op = "mark" /\ heap[gclast'.h].flag = gcflag) =>
              heap' = heap /\ visits' = visits
       /\ ~foreign' =>
              \A s \in DOMAIN heap' :
                  visits'[s] = IF heap'[s].present /\ heap'[s].flag = gcflag'
                               THEN 1 ELSE 0]_vars

\* C14 witness: two roots were marked in one cycle, one of them reachable
\* from the other, so that trace_ref met a slot it had flagged already.
MarkedAgain ==
    /\ gclast.op = "mark" /\ gclast.res = "ok"
    /\ \E r \in roots \ {gclast.h} : gclast.h \in Reachable(heap, r)
    /\ visits[gclast.h] = 1

\* ------------------------------------------------ virtual machine: claims

\* The last call was an execute that fetched exactly one instruction: the
\* thread before it is vmlast.pre, the thread after it threads[vmlast.t].
OneStep == vmlast.op = "execute" /\ vmlast.steps = 1
Pre == vmlast.pre
Post == threads[vmlast.t]

\* That one instruction was opcode op, read from the instruction bytes.
OneStepOf(op) == OneStep /\ ~AtEnd(Pre) /\ Fetched(Pre) = op

\* The same, with the operand byte of op in the instruction bytes.
OneStepWithOperand(op) == OneStepOf(op) /\ HasOperand(Advance(Pre))
PreOperand == Operand(Advance(Pre))

\* No value of the stack is a Code: a frame marker always holds one.
NoFrameMarker(stack) == \A i \in 1..Len(stack) : stack[i].tag # "Code"

\* C3: a Return, explicit or implicit, that finds no frame marker on the stack
\* makes execute return Ok(true).
ReturnWithoutFrameCompletes ==
    (OneStep /\ Fetched(Pre) = OpReturn /\ NoFrameMarker(Pre.stack)) =>
        vmlast.res = "Ok(true)"

\* The thread right after the first instruction of the last execute call.
AfterFirst == Step(Pre, globals)

\* The last call executed a Call that switched to a callee with no
\* instructions left, and then the callee's implicit Return.
CallThenFallOff ==
    /\ vmlast.op = "execute" /\ vmlast.steps = 2
    /\ ~AtEnd(Pre) /\ Fetched(Pre) = OpCall
    /\ AfterFirst.res = "next" /\ AtEnd(AfterFirst.th)

\* C4: a Call followed by the callee's fall off the end raises no error, takes
\* the two frame-marker slots off the stack and nothing else, and resumes the
\* caller's code just after the Call's operand byte.
CallThenFallOffResumes ==
    CallThenFallOff =>
        /\ vmlast.res = "Ok(false)"
        /\ Post.code = Pre.code
        /\ Post.instr = Pre.instr + 2
        /\ Post.stack = SubSeq(AfterFirst.th.stack, 1, Len(AfterFirst.th.stack) - 2)

\* The name a LoadGlobal or SetGlobal operand resolves to, when it is one.
NamesGlobal == PreOperand < Len(CodeOf(Pre.code).constants)
                 /\ CodeOf(Pre.code).constants[PreOperand + 1].tag = "String"
GlobalName == CodeOf(Pre.code).constants[PreOperand + 1].v

\* C5: SetGlobal pops the top of the stack and binds it under the name of its
\* operand; LoadGlobal pushes the value bound under the name, or Nil.
GlobalsBindAndLoad ==
    /\ (OneStepWithOperand(OpSetGlobal) /\ NamesGlobal /\ Pre.stack # <<>>) =>
            /\ Post.stack = SubSeq(Pre.stack, 1, Len(Pre.stack) - 1)
            /\ GlobalName \in DOMAIN globals
            /\ globals[GlobalName] = Pre.stack[Len(Pre.stack)]
    /\ (OneStepWithOperand(OpLoadGlobal) /\ NamesGlobal) =>
            Post.stack = Append(Pre.stack, IF GlobalName \in DOMAIN globals
                                           THEN globals[GlobalName] ELSE Nil)

\* C7: a Call with operand N of a function that declares P parameters and no
\* upvalue leaves, above the function, the first min(N, P) arguments in order,
\* then P - N Nils, then the return instruction pointer and the caller's code,
\* and switches to the callee's code at instruction 0.
CallPadsArguments ==
    (OneStepWithOperand(OpCall) /\ vmlast.res = "Ok(false)") =>
        LET N == PreOperand
            base == Len(Pre.stack) - N
            func == Pre.stack[base]
            P == CodeOf(func.code).params
        IN /\ func.tag = "Function"
           /\ CodeOf(func.code).upvalues = 0
           /\ Post.code = func.code
           /\ Post.instr = 0
           /\ Len(Post.stack) = base + P + 2
           /\ SubSeq(Post.stack, 1, base) = SubSeq(Pre.stack, 1, base)
           /\ \A i \in 1..P :
                Post.stack[base + i] = IF i <= N THEN Pre.stack[base + i] ELSE Nil
           /\ Post.stack[base + P + 1] = Integer(Pre.instr + 2)
           /\ Post.stack[base + P + 2] = CodeVal(Pre.code)

\* The parameters of the function a Call with the operand in Pre reaches.
CalleeParams == CodeOf(Pre.stack[Len(Pre.stack) - PreOperand].code).params

\* C7 witness: a Call went through with arguments supplied and fewer of them
\* than parameters, so that Nils follow arguments.
CallPadded ==
    /\ OneStepWithOperand(OpCall) /\ vmlast.res = "Ok(false)"
    /\ PreOperand >= 1 /\ PreOperand < CalleeParams

\* C7, the other case: a Call went through with more arguments than
\* parameters, and some argument stays.
CallTruncated ==
    /\ OneStepWithOperand(OpCall) /\ vmlast.res = "Ok(false)"
    /\ CalleeParams >= 1 /\ PreOperand > CalleeParams

\* The table a LoadConstant or LoadCode in Pre indexes.
PreTable(op) ==
    IF op = OpLoadConstant THEN CodeOf(Pre.code).constants ELSE CodeOf(Pre.code).codes

\* C8: LoadConstant and LoadCode with an index at or past the end of their
\* table return InvalidInstruction and push nothing, and no index makes the
\* table access go out of bounds.
IndexOutOfRangeRejected ==
    \A op \in {OpLoadConstant, OpLoadCode} :
        OneStepWithOperand(op) =>
            /\ vmlast.res # "panic"
            /\ PreOperand >= Len(PreTable(op)) =>
                    vmlast.res = "InvalidInstruction" /\ Post.stack = Pre.stack
            /\ PreOperand < Len(PreTable(op)) =>
                    /\ vmlast.res = "Ok(false)"
                    /\ Len(Post.stack) = Len(Pre.stack) + 1

\* C8 witness: a LoadConstant whose index is the length of a table that is
\* not empty was turned down with values on the stack.
IndexAtTableLength ==
    /\ OneStepWithOperand(OpLoadConstant)
    /\ PreOperand = Len(PreTable(OpLoadConstant)) /\ PreOperand > 0
    /\ Pre.stack # <<>>
    /\ vmlast.res = "InvalidInstruction"

\* C9: Pop with operand N takes exactly the N topmost values off a stack that
\* holds at least N, and on a shorter stack returns StackEmpty and leaves the
\* stack as it was.
PopExactOrUntouched ==
    OneStepWithOperand(OpPop) =>
        IF Len(Pre.stack) >= PreOperand
        THEN /\ vmlast.res = "Ok(false)"
             /\ Post.stack = SubSeq(Pre.stack, 1, Len(Pre.stack) - PreOperand)
        ELSE /\ vmlast.res = "StackEmpty"
             /\ Post.stack = Pre.stack

\* C9 witness: a Pop asked for more values than a stack that was not empty
\* held.
PopUnderflowOnValues ==
    /\ OneStepWithOperand(OpPop)
    /\ Pre.stack # <<>> /\ PreOperand > Len(Pre.stack)
    /\ vmlast.res = "StackEmpty"

\* C9, the other case: a Pop took some values and left some.
PopTookSome ==
    /\ OneStepWithOperand(OpPop)
    /\ PreOperand >= 1 /\ PreOperand < Len(Pre.stack)
    /\ vmlast.res = "Ok(false)"

\* The operand bytes the instruction format gives each opcode.
OperandBytes(op) ==
    IF op \in {OpLoadConstant, OpLoadCode, OpMakeFunction, OpLoadGlobal,
               OpSetGlobal, OpCall, OpPop}
    THEN 1 ELSE 0

\* C10: an instruction whose operand bytes are all in the instruction bytes
\* and that goes through without a transfer of control moves the instruction
\* pointer past its opcode byte and its operand bytes.
OperandBytesConsumed ==
    (OneStep /\ ~AtEnd(Pre) /\ vmlast.res = "Ok(false)"
        /\ Fetched(Pre) \notin {OpCall, OpReturn}
        /\ Pre.instr + 1 + OperandBytes(Fetched(Pre)) <= Len(CodeOf(Pre.code).instrs)) =>
        /\ Post.code = Pre.code
        /\ Post.instr = Pre.instr + 1 + OperandBytes(Fetched(Pre))

\* What a call with the rest of a budget gives after a call that came out
\* as r1: it runs only if the first call returned for want of budget.
Continued(r1, rest) ==
    IF r1.res = "Ok(false)" THEN Run(r1.th, r1.g, rest, 0) ELSE r1

\* The calls that came out as r left thread th and globals g and returned res.
Leaves(r, th, g, res) == r.th = th /\ r.g = g /\ r.res = res

\* C11: an execute with budget n fetches at most n instructions, and exactly n
\* if it returns Ok(false); with budget 0 it changes nothing; and however n is
\* split in two, a call with the first part followed, if that one returned
\* Ok(false), by a call with the second part leaves the thread and the
\* globals and gives the result that the one call gave.
BudgetSplits ==
    vmlast.op = "execute" =>
        /\ vmlast.steps <= vmlast.count
        /\ vmlast.res = "Ok(false)" => vmlast.steps = vmlast.count
        /\ vmlast.count = 0 =>
              Post = Pre /\ globals = vmlast.gpre /\ vmlast.res = "Ok(false)"
        /\ \A a \in 0..vmlast.count :
              Leaves(Continued(Run(Pre, vmlast.gpre, a, 0), vmlast.count - a),
                     Post, globals, vmlast.res)

\* C11 witness: a call with a budget of two or more that used all of it, on
\* a thread that an earlier call had already moved.
BudgetUsedUp ==
    /\ vmlast.op = "execute"
    /\ vmlast.count >= 2
    /\ vmlast.steps = vmlast.count
    /\ vmlast.res = "Ok(false)"
    /\ Pre.instr > 0
    /\ Len(Post.stack) > Len(Pre.stack)

\* C15: MakeFunction with operand N on a stack that holds N values above a
\* Code replaces them by one Function of that code and those values; on a
\* stack of fewer than N + 1 values it returns StackEmpty, and when the value
\* under the N topmost is not a Code it returns InvalidInstruction.
MakeFunctionTakesUpvalues ==
    OneStepWithOperand(OpMakeFunction) =>
        LET n == PreOperand
            len == Len(Pre.stack)
        IN IF len < n + 1 THEN vmlast.res = "StackEmpty"
           ELSE IF Pre.stack[len - n].tag # "Code" THEN vmlast.res = "InvalidInstruction"
           ELSE /\ vmlast.res = "Ok(false)"
                /\ Post.stack = Append(SubSeq(Pre.stack, 1, len - n - 1),
                                       FunctionVal(Pre.stack[len - n].v,
                                                   SubSeq(Pre.stack, len - n + 1, len)))

\* The deepest stack a call with fewer than MaxArgs arguments needs: the
\* function, the arguments and the two frame markers.
StackLimit == MaxArgs + 2

\* C16: no stack grows beyond a fixed depth, here the depth StackLimit: an
\* execute returns before it pushes beyond it.
StackGrowthBounded ==
    \A t \in DOMAIN threads : Len(threads[t].stack) <= StackLimit

ExecErrors == {"InvalidInstruction", "StackEmpty", "StackFull"}

\* C17: an execute on a thread whose last execute returned an error does not
\* carry out an instruction: it fetches none, or the first it fetches ends
\* the call.
ErrorIsFatal ==
    [][(/\ vmlast.op = "execute" /\ vmlast.res \in ExecErrors
        /\ vmlast'.op = "execute" /\ vmlast'.t = vmlast.t) =>
            \/ vmlast'.steps = 0
            \/ vmlast'.steps = 1 /\ vmlast'.res # "Ok(false)"]_vars

\* The opcodes that read an operand byte.
OperandOpcodes == {OpCall, OpLoadConstant, OpLoadCode, OpMakeFunction, OpPop}

\* C18: no execute ends in a panic, and an execute whose one instruction was
\* an operand-taking opcode at the last byte of the instructions returned an
\* error.
MissingOperandIsError ==
    /\ vmfail = "none"
    /\ (/\ OneStep /\ ~AtEnd(Pre) /\ Fetched(Pre) \in OperandOpcodes
        /\ ~HasOperand(Advance(Pre))) => vmlast.res \in ExecErrors

\* C19: an execute with no budget that has started returns.
ExecuteNoneReturns == [](running # 0 => <>(running = 0))

\* C20: an execute on one thread leaves every other thread as it was.
ThreadsIndependent ==
    [][vmlast'.op = "execute" =>
        \A t \in DOMAIN threads : t # vmlast'.t => threads'[t] = threads[t]]_vars

\* C20 witness: the last execute moved its thread while the other thread,
\* stopped part-way with values on its stack, stood where it was.
OtherThreadStands ==
    /\ vmlast.op = "execute" /\ vmlast.steps >= 1
    /\ Post # Pre
    /\ \E t \in DOMAIN threads :
          /\ t # vmlast.t
          /\ threads[t].instr > 0
          /\ threads[t].stack # <<>>
          /\ threads[t] # Post

====
